---- MODULE Spec2Model ----
(***************************************************************************)
(* A model of the BTC short-strangle bot: the strategy executor            *)
(* (strategy.py), the two triggers that invoke it (app.py: the daily       *)
(* scheduler thread and the webhook handler) and the exchange client       *)
(* (delta_client.py).                                                      *)
(*                                                                         *)
(* Text is modelled as sequences of one-character strings, so that         *)
(* splitting, parsing and formatting are computed and not assumed.         *)
(* Prices and strikes are Python floats in the code; here they are exact   *)
(* decimals, held as integers counting hundredths (Scale).                 *)
(***************************************************************************)
EXTENDS Integers, Sequences, FiniteSets, Bags, TLC

(***************************************************************************)
(* Text helpers                                                            *)
(***************************************************************************)
DigitChars == <<"0", "1", "2", "3", "4", "5", "6", "7", "8", "9">>

IsDigit(c) == \E i \in 1..10 : DigitChars[i] = c

DigitVal(c) == (CHOOSE i \in 1..10 : DigitChars[i] = c) - 1

\* Hundredths per unit: the model keeps two decimal digits of a float.
Scale == 10 * 10

\* Optional values: <<>> is "no value" (None, or a raised ValueError),
\* <<v>> is the value v.
None == <<>>

Some(v) == <<v>>

RECURSIVE SplitFrom(_, _, _)
\* str.split("-"): the segments of s from position i on, cur being the
\* segment read so far.
SplitFrom(s, i, cur) ==
    IF i > Len(s) THEN <<cur>>
    ELSE IF s[i] = "-" THEN <<cur>> \o SplitFrom(s, i + 1, <<>>)
    ELSE SplitFrom(s, i + 1, Append(cur, s[i]))

Split(s) == SplitFrom(s, 1, <<>>)

\* `sub in s` for strings.
Contains(s, sub) ==
    \E i \in 0..(Len(s) - Len(sub)) :
        \A j \in 1..Len(sub) : s[i + j] = sub[j]

RECURSIVE DigitsValue(_)
\* The number a string of digits writes (0 for the empty string).
DigitsValue(s) ==
    IF s = <<>> THEN 0
    ELSE 10 * DigitsValue(SubSeq(s, 1, Len(s) - 1)) + DigitVal(s[Len(s)])

\* float(str) on plain decimal text: digits with at most one ".", at least
\* one digit, at most two digits after the point (the precision of Scale).
\* Anything else met in the model (letters, the empty string) raises
\* ValueError, which every caller catches: None.
ParseFloat(s) ==
    LET dots == {i \in 1..Len(s) : s[i] = "."}
        ok == /\ Len(s) > 0
              /\ \A i \in 1..Len(s) : IsDigit(s[i]) \/ s[i] = "."
              /\ Cardinality(dots) <= 1
              /\ Len(s) > Cardinality(dots)
        dot == IF dots = {} THEN Len(s) + 1 ELSE CHOOSE i \in dots : TRUE
        ip == SubSeq(s, 1, dot - 1)
        fp == SubSeq(s, dot + 1, Len(s))
        frac == IF Len(fp) = 0 THEN 0
                ELSE IF Len(fp) = 1 THEN 10 * DigitsValue(fp)
                ELSE DigitsValue(SubSeq(fp, 1, 2))
    IN IF ok THEN Some(Scale * DigitsValue(ip) + frac) ELSE None

\* int(x) for a float x >= 0: truncation.
IntTrunc(x) == x \div Scale

RECURSIVE IntToStr(_)
\* str(n) for an int n >= 0.
IntToStr(n) ==
    IF n < 10 THEN <<DigitChars[n + 1]>>
    ELSE IntToStr(n \div 10) \o <<DigitChars[(n % 10) + 1]>>

\* str(x) for a float x >= 0 of two decimals: the shortest text that reads
\* back as x, with at least one digit after the point ("24.68", "24.6",
\* "10.0").
FloatStr(x) ==
    LET ip == x \div Scale
        fp == x % Scale
    IN IntToStr(ip) \o <<".">> \o
       (IF fp % 10 = 0 THEN IntToStr(fp \div 10) ELSE IntToStr(fp \div 10) \o IntToStr(fp % 10))

Abs(x) == IF x < 0 THEN -x ELSE x

RECURSIVE SortedSeq(_)
\* sorted(list(set)): the ascending list of a finite set of numbers.
SortedSeq(S) ==
    IF S = {} THEN <<>>
    ELSE LET m == CHOOSE x \in S : \A y \in S : x <= y
         IN <<m>> \o SortedSeq(S \ {m})

BTC == <<"B", "T", "C">>

(***************************************************************************)
(* strategy.py: the pure helpers                                           *)
(***************************************************************************)
\* cmp_price * 1.01 and cmp_price * 0.99, as percentages.
UpPct == 101

DnPct == 99

\* 100 * abs(s - cmp_price * pct / 100): the key of min(), times 100 so that
\* it stays an integer; the order of keys is the order of the code's keys.
StrikeKey(s, cmp_price, pct) == Abs(100 * s - pct * cmp_price)

RECURSIVE MinByKeyLast(_, _, _, _, _)
\* Faulty variant of MinByKey: a later strike replaces the best on an equal key.
MinByKeyLast(strikes, i, best, cmp_price, pct) ==
    IF i > Len(strikes) THEN best
    ELSE MinByKeyLast(strikes, i + 1,
                      IF StrikeKey(strikes[i], cmp_price, pct)
                           <= StrikeKey(best, cmp_price, pct)
                      THEN strikes[i] ELSE best,
                      cmp_price, pct)

RECURSIVE MinByKey(_, _, _, _, _)
\* min(strikes, key=...): scan left to right, keep the first strictly
\* smaller key.
MinByKey(strikes, i, best, cmp_price, pct) ==
    IF i > Len(strikes) THEN best
    ELSE MinByKey(strikes, i + 1,
                  IF StrikeKey(strikes[i], cmp_price, pct)
                       < StrikeKey(best, cmp_price, pct)
                  THEN strikes[i] ELSE best,
                  cmp_price, pct)

\* min(strikes, key=lambda s: abs(s - target)) for a non-empty list.
MinStrike(strikes, cmp_price, pct) ==
    MinByKey(strikes, 2, strikes[1], cmp_price, pct)

\* Faulty variant of PickStrikes: the two targets exchanged.
PickStrikesSwapped(cmp_price, strikes) ==
    <<MinStrike(strikes, cmp_price, DnPct), MinStrike(strikes, cmp_price, UpPct)>>

\* _pick_strikes: <<ce, pe>>.
PickStrikes(cmp_price, strikes) ==
    <<MinStrike(strikes, cmp_price, UpPct), MinStrike(strikes, cmp_price, DnPct)>>

\* The test each product passes to enter the result of
\* _extract_btc_option_products. A product is [symbol, id]; a missing or
\* null symbol is the empty string, a missing or null id is 0.
KeepsProduct(p, expiry) ==
    LET sym == p.symbol
        parts == Split(sym)
    IN /\ sym # <<>>
       /\ Contains(sym, BTC)
       /\ Len(parts) >= 4
       /\ parts[2] = BTC
       /\ parts[4] = expiry
       /\ parts[1] \in {<<"C">>, <<"P">>}
       /\ ParseFloat(parts[3]) # None

RECURSIVE ExtractFrom(_, _, _, _)
\* The loop of _extract_btc_option_products: out[sym] = p, a later product
\* replacing an earlier one of the same symbol.
ExtractFrom(products, i, expiry, out) ==
    IF i > Len(products) THEN out
    ELSE LET p == products[i]
         IN ExtractFrom(products, i + 1, expiry,
                IF KeepsProduct(p, expiry)
                THEN [s \in (DOMAIN out) \cup {p.symbol} |->
                         IF s = p.symbol THEN p ELSE out[s]]
                ELSE out)

\* The empty dict.
EmptyDict == [s \in {} |-> 0]

\* _extract_btc_option_products: a dict symbol -> product.
ExtractBtcOptionProducts(products, expiry) ==
    ExtractFrom(products, 1, expiry, EmptyDict)

\* _parse_strike_from_symbol: float(symbol.split("-")[2]), None on any error.
ParseStrikeFromSymbol(symbol) ==
    LET parts == Split(symbol)
    IN IF Len(parts) >= 3 THEN ParseFloat(parts[3]) ELSE None

(***************************************************************************)
(* JSON values, as the exchange returns them: a tag t and a payload v.     *)
(* A dict's payload is a function from key to JSON value, a list's a       *)
(* sequence, a number's the number (in hundredths), a string's its text.   *)
(***************************************************************************)
JNull == [t |-> "null", v |-> 0]

JNum(n) == [t |-> "num", v |-> n]

JStr(s) == [t |-> "str", v |-> s]

JDict(d) == [t |-> "dict", v |-> d]

JList(l) == [t |-> "list", v |-> l]

JBool(b) == [t |-> "bool", v |-> b]

IsDict(j) == j.t = "dict"

\* dict.get(k): None when the key is absent.
Get(j, k) == IF k \in DOMAIN j.v THEN j.v[k] ELSE JNull

\* Python truth of a JSON value.
Truthy(j) ==
    CASE j.t = "null" -> FALSE
      [] j.t = "num" -> j.v # 0
      [] j.t = "str" -> j.v # <<>>
      [] j.t = "dict" -> DOMAIN j.v # {}
      [] j.t = "list" -> j.v # <<>>
      [] j.t = "bool" -> j.v

\* float(v): a number as it is, a string parsed, True 1.0 and False 0.0,
\* anything else TypeError.
ToFloat(j) ==
    CASE j.t = "num" -> Some(j.v)
      [] j.t = "str" -> ParseFloat(j.v)
      [] j.t = "bool" -> Some(IF j.v THEN Scale ELSE 0)
      [] OTHER -> None

\* _normalize_result
NormalizeResult(obj) ==
    IF IsDict(obj) /\ "result" \in DOMAIN obj.v THEN obj.v["result"] ELSE obj

PriceFields == <<"close", "last_price", "mark_price">>

RECURSIVE FirstPriceTruthy(_, _, _)
\* Faulty variant of FirstPrice: `if v:` for `if v is not None:`, so that a
\* zero is passed over.
FirstPriceTruthy(d, fields, i) ==
    IF i > Len(fields) THEN None
    ELSE LET v == IF IsDict(d) THEN Get(d, fields[i]) ELSE JNull
             f == IF ~Truthy(v) THEN None ELSE ToFloat(v)
         IN IF f # None THEN f ELSE FirstPriceTruthy(d, fields, i + 1)

RECURSIVE FirstPrice(_, _, _)
\* for k in fields: v = d.get(k); if v is not None: try float(v), else go on.
FirstPrice(d, fields, i) ==
    IF i > Len(fields) THEN None
    ELSE LET v == IF IsDict(d) THEN Get(d, fields[i]) ELSE JNull
             f == IF v.t = "null" THEN None ELSE ToFloat(v)
         IN IF f # None THEN f ELSE FirstPrice(d, fields, i + 1)

\* Steps 1 of run_short_strangle: the CMP of a ticker response, None when
\* the run raises "CMP not found".
SpotPrice(spot_tick) == FirstPrice(NormalizeResult(spot_tick), PriceFields, 1)

\* _current_option_premium on a ticker response t: None when it raises
\* (RuntimeError "Premium not found", or AttributeError on a t with no get).
CurrentOptionPremium(t) ==
    IF ~IsDict(t) THEN None
    ELSE LET r == Get(t, "result")
             last == IF Truthy(r) THEN r ELSE t
         IN FirstPrice(last, PriceFields, 1)

(***************************************************************************)
(* Time. The clock counts seconds from 00:00:00 UTC of BaseDate.           *)
(***************************************************************************)
DaySeconds == 24 * 3600

\* ist_seconds = int(5.5 * 3600)
IstSeconds == 19800

\* <<day, month, year>> of the clock's day 0; strftime("%d%m%y") is
\* modelled for the days of BaseDate's month.
BaseDate == <<21, 8, 21>>

\* "%02d"
Pad2(n) == IF n < 10 THEN <<"0">> \o IntToStr(n) ELSE IntToStr(n)

\* _today_ddmmyy_ist at clock t: the date of t + 5:30, as ddmmyy.
TodayDdmmyyIst(t) ==
    LET day == (t + IstSeconds) \div DaySeconds
    IN Pad2(BaseDate[1] + day) \o Pad2(BaseDate[2]) \o Pad2(BaseDate[3])

\* SCHEDULE_CRON_UTC = "07:00": target_hh, target_mm.
TargetHH == 7

TargetMM == 0

Max(a, b) == IF a >= b THEN a ELSE b

\* time.mktime(target.timetuple()): the tuple of a UTC instant read as local
\* time, on a host whose local time is UTC + tzoff.
MkTime(utc_instant, tzoff) == utc_instant - tzoff

\* The seconds scheduler_loop sleeps when it computes at clock t.
SleepSeconds(t, tzoff) ==
    LET sod == t % DaySeconds
        target == (t - sod) + TargetHH * 3600 + TargetMM * 60
        target_ts == IF target <= t
                     THEN t + (DaySeconds - sod)
                     ELSE MkTime(target, tzoff)
    IN Max(1, target_ts - t)

(***************************************************************************)
(* The exchange: what it answers in one behaviour (a market snapshot).     *)
(***************************************************************************)
\* The text of an option symbol with the strike as written by the exchange.
Sym(cp, strike_text, tag) ==
    <<cp, "-">> \o BTC \o <<"-">> \o strike_text \o <<"-">> \o tag

Product(symbol, id) == [symbol |-> symbol, id |-> id]

Tag0 == TodayDdmmyyIst(0)

Tag1 == TodayDdmmyyIst(DaySeconds)

S99 == <<"9", "9">>

S101 == <<"1", "0", "1">>

\* The four contracts around a spot of 100, for one expiry tag.
Chain(tag, base) ==
    << Product(Sym("C", S101, tag), base + 1), Product(Sym("P", S99, tag), base + 2),
       Product(Sym("C", S99, tag), base + 3), Product(Sym("P", S101, tag), base + 4) >>

GoodProducts == Chain(Tag0, 10) \o Chain(Tag1, 20)

SpotClose100 == JDict("close" :> JStr(<<"1", "0", "0">>))

CallTick == JDict("result" :> JDict("close" :> JStr(<<"1", "2", ".", "3", "4">>)))

PutTick == JDict("mark_price" :> JNum(5 * Scale))

EmptyTick == JDict(<<>>)

Market(spot, prods, ctick, ptick) ==
    [spot |-> spot, prods |-> prods, ctick |-> ctick, ptick |-> ptick]

\* The snapshots the model runs against.
Markets ==
    << \* every step can succeed, today and tomorrow
       Market(SpotClose100, JDict("result" :> JList(GoodProducts)), CallTick, PutTick),
       \* the put at the selected strike is not listed
       Market(SpotClose100,
              JList(<< Product(Sym("C", S101, Tag0), 11), Product(Sym("C", S99, Tag0), 13),
                       Product(Sym("P", S101, Tag0), 14) >>),
              CallTick, PutTick),
       \* the selected put has no id
       Market(SpotClose100,
              JList(<< Product(Sym("C", S101, Tag0), 11), Product(Sym("P", S99, Tag0), 0) >>),
              CallTick, PutTick),
       \* nothing listed for today: another expiry, another underlying, no symbol
       Market(SpotClose100,
              JList(<< Product(Sym("C", S101, <<"0", "1", "0", "1", "2", "0">>), 31),
                       Product(<<"C", "-", "E", "T", "H", "-", "9", "9", "-">> \o Tag0, 32),
                       Product(<<>>, 33) >>),
              CallTick, PutTick),
       \* the spot ticker carries no price
       Market(JDict("result" :> JDict("close" :> JStr(<<"n", "a">>))),
              JList(GoodProducts), CallTick, PutTick),
       \* the put ticker carries no price
       Market(JDict("result" :> JDict("last_price" :> JNum(100 * Scale))),
              JList(GoodProducts), CallTick, EmptyTick),
       \* the only strike listed is 0
       Market(SpotClose100,
              JList(<< Product(Sym("C", <<"0">>, Tag0), 41), Product(Sym("P", <<"0">>, Tag0), 42) >>),
              CallTick, PutTick),
       \* a fractional strike next to a whole one, spot 100.5
       Market(JDict("close" :> JNum(100 * Scale + 50)),
              JList(<< Product(Sym("C", S101, Tag0), 51),
                       Product(Sym("C", <<"1", "0", "1", ".", "5">>, Tag0), 52),
                       Product(Sym("P", S99, Tag0), 53) >>),
              CallTick, PutTick),
       \* a symbol with a fifth segment, and the products endpoint answering no list
       Market(SpotClose100,
              JList(<< Product(Sym("C", S101, Tag0) \o <<"-", "X">>, 61),
                       Product(Sym("P", S99, Tag0), 62) >>),
              CallTick, PutTick),
       Market(SpotClose100, JNull, CallTick, PutTick),
       \* strikes written 0101 and 99.0 next to 101 and 99
       Market(SpotClose100,
              JList(<< Product(Sym("C", <<"0", "1", "0", "1">>, Tag0), 71),
                       Product(Sym("C", S101, Tag0), 72),
                       Product(Sym("P", <<"9", "9", ".", "0">>, Tag0), 73),
                       Product(Sym("P", S99, Tag0), 74) >>),
              CallTick, PutTick)
    >>

\* What GET /v2/tickers/{symbol} answers for an option symbol.
OptionTicker(m, symbol) == IF symbol[1] = "C" THEN m.ctick ELSE m.ptick

(***************************************************************************)
(* State                                                                   *)
(***************************************************************************)
VARIABLES
    now,      \* the clock, seconds
    tz,       \* the host's local time is UTC + tz seconds
    market,   \* the snapshot the exchange answers from
    tpc,      \* where each trigger's thread is
    run,      \* each trigger's current (or last) call of run_short_strangle
    book,     \* the orders the exchange has accepted, a bag of order bodies
    sent,     \* the messages each trigger handed to tg_send_message for its current run
    fired,    \* the clock at each firing of the scheduled job
    resp,     \* the answer to the last POST request the webhook server took
    nruns,    \* the runs the two triggers have started
    arg,      \* input of a helper checked on its own
    ret       \* its result

vars == <<now, tz, market, tpc, run, book, sent, fired, resp, nruns, arg, ret>>

sysvars == <<now, tz, market, tpc, run, book, sent, fired, resp, nruns>>

Triggers == {"sched", "manual"}

\* Where a trigger's thread waits between runs: the top of scheduler_loop's
\* while, serve_forever's wait for a request.
WaitPc(t) == IF t = "sched" THEN "loop" ELSE "serve"

\* UNDERLYING_SYMBOL
Underlying == <<"B", "T", "C", "U", "S", "D", "T">>

\* What GET /v2/tickers/{symbol} answers for the underlying.
SpotTicker(m, symbol) == IF symbol = Underlying THEN m.spot ELSE JNull

\* The locals of one call of run_short_strangle. pc is the client call it
\* is about to make, "returned" or "raised"; err the error raised and at
\* the step that raised it; placed the bodies of the orders place_order
\* accepted; ncalls the client calls made.
IdleRun ==
    [pc |-> "idle", underlying |-> <<>>, cmp_price |-> None, expiry |-> <<>>,
     syms |-> {}, strikes |-> <<>>, ce_strike |-> 0, pe_strike |-> 0,
     ce_symbol |-> <<>>, pe_symbol |-> <<>>, ce_pid |-> 0, pe_pid |-> 0,
     ce_premium |-> None, pe_premium |-> None,
     placed |-> <<>>, ncalls |-> 0, err |-> "", at |-> ""]

StartRun(underlying_symbol) ==
    [IdleRun EXCEPT !.pc = "spot", !.underlying = underlying_symbol]

\* Faulty variant of Raised: the error is noted and the failing step tried again.
Retried(r, step, msg) == [r EXCEPT !.err = msg, !.at = step]

\* An exception leaves run_short_strangle: nothing in it catches one.
Raised(r, step, msg) == [r EXCEPT !.pc = "raised", !.err = msg, !.at = step]

\* DeltaClient._request: raise_for_status and the transport's exceptions.
\* answer is what the HTTP exchange came to.
HttpAnswers == {"2xx", "non2xx", "transport"}

ClientRaises(answer) == answer # "2xx"

ClientError(answer) == IF answer = "non2xx" THEN "HTTPError" ELSE "RequestException"

(***************************************************************************)
(* run_short_strangle, one action per client call, each with the local     *)
(* computation that follows the call.                                      *)
(***************************************************************************)
\* Lines 92-107: the spot ticker, the CMP, the expiry tag.
AfterSpot(r, answer) ==
    IF ClientRaises(answer) THEN Raised([r EXCEPT !.ncalls = @ + 1], "spot", ClientError(answer))
    ELSE LET cmp == SpotPrice(SpotTicker(market, r.underlying))
             r1 == [r EXCEPT !.ncalls = @ + 1, !.cmp_price = cmp]
         IN IF cmp = None THEN Raised(r1, "spot", "CMP not found")
            ELSE [r1 EXCEPT !.pc = "products", !.expiry = TodayDdmmyyIst(now)]

\* Lines 118-123: the strikes of the discovered symbols, zero and
\* unparsable ones dropped, distinct, ascending.
StrikesOf(syms) ==
    SortedSeq({ParseStrikeFromSymbol(sym)[1] :
                  sym \in {x \in syms : /\ ParseStrikeFromSymbol(x) # None
                                         /\ ParseStrikeFromSymbol(x)[1] # 0}})

\* f"C-BTC-{int(ce_strike)}-{expiry}"
OptionSymbol(cp, strike, expiry) ==
    <<cp, "-">> \o BTC \o <<"-">> \o IntToStr(IntTrunc(strike)) \o <<"-">> \o expiry

\* Faulty variant of SelectedMissing: refused only when both are missing.
SelectedBothMissing(ce_symbol, pe_symbol, syms) ==
    ce_symbol \notin syms /\ pe_symbol \notin syms

\* Line 132: the selected symbols are refused.
SelectedMissing(ce_symbol, pe_symbol, syms) ==
    ce_symbol \notin syms \/ pe_symbol \notin syms

\* Lines 110-141: the products, the discovery, the strikes, the symbols,
\* the product ids.
AfterProducts(r, answer) ==
    IF ClientRaises(answer) THEN Raised([r EXCEPT !.ncalls = @ + 1], "products", ClientError(answer))
    ELSE LET r1 == [r EXCEPT !.ncalls = @ + 1]
             prods == NormalizeResult(market.prods)
         IN IF ~(prods.t = "list" \/ (prods.t = "dict" /\ DOMAIN prods.v = {}))
            THEN Raised(r1, "products", "TypeError")
            ELSE
            LET sym_to_prod == IF prods.t = "list"
                               THEN ExtractBtcOptionProducts(prods.v, r.expiry)
                               ELSE EmptyDict
                syms == DOMAIN sym_to_prod
                strikes == StrikesOf(syms)
                r2 == [r1 EXCEPT !.syms = syms, !.strikes = strikes]
            IN IF syms = {} THEN Raised(r2, "products", "No BTC options found")
               ELSE IF strikes = <<>> THEN Raised(r2, "products", "No strikes parsed")
               ELSE
               LET picked == PickStrikes(r.cmp_price[1], strikes)
                   ce_symbol == OptionSymbol("C", picked[1], r.expiry)
                   pe_symbol == OptionSymbol("P", picked[2], r.expiry)
                   r3 == [r2 EXCEPT !.ce_strike = picked[1], !.pe_strike = picked[2],
                                    !.ce_symbol = ce_symbol, !.pe_symbol = pe_symbol]
               IN IF SelectedMissing(ce_symbol, pe_symbol, syms)
                  THEN Raised(r3, "products", "Selected symbols not available")
                  ELSE IF ce_symbol \notin syms \/ pe_symbol \notin syms
                  THEN Raised(r3, "products", "KeyError")
                  ELSE
                  LET ce_pid == sym_to_prod[ce_symbol].id
                      pe_pid == sym_to_prod[pe_symbol].id
                  IN IF ce_pid = 0 \/ pe_pid = 0
                     THEN Raised(r3, "products", "Product ids missing")
                     ELSE [r3 EXCEPT !.pc = "ce_premium", !.ce_pid = ce_pid, !.pe_pid = pe_pid]

\* Line 144 (leg "ce") and line 145 (leg "pe"): the premium of one leg.
AfterPremium(r, leg, answer) ==
    LET r1 == [r EXCEPT !.ncalls = @ + 1]
        step == IF leg = "ce" THEN "ce_premium" ELSE "pe_premium"
        symbol == IF leg = "ce" THEN r.ce_symbol ELSE r.pe_symbol
        premium == CurrentOptionPremium(OptionTicker(market, symbol))
    IN IF ClientRaises(answer) THEN Raised(r1, step, ClientError(answer))
       ELSE IF premium = None THEN Raised(r1, step, "Premium not found")
       ELSE IF leg = "ce"
            THEN [r1 EXCEPT !.pc = "pe_premium", !.ce_premium = premium]
            ELSE [r1 EXCEPT !.pc = "ce_entry", !.pe_premium = premium]

\* The body of an entry order, lines 151-156 and 159-164.
MarketSell(product_id) ==
    [order_type |-> "market_order", size |-> 1, side |-> "sell",
     product_id |-> product_id, stop_price |-> None]

\* round(premium * 2, 2): premium * 2 has two decimals already.
StopPrice(premium) == 2 * premium

\* The body of a stop order, lines 171-177 and 180-186; stop_price is
\* str(stop price).
StopBuy(product_id, premium) ==
    [order_type |-> "stop_order", size |-> 1, side |-> "buy",
     product_id |-> product_id, stop_price |-> FloatStr(StopPrice(premium))]

\* The order steps in the order the code takes them.
OrderSteps == <<"ce_entry", "pe_entry", "ce_stop", "pe_stop">>

\* Faulty variant of NextStep: each leg's stop right after its entry.
NextStepByLeg(step) ==
    CASE step = "ce_entry" -> "ce_stop"
      [] step = "ce_stop" -> "pe_entry"
      [] step = "pe_entry" -> "pe_stop"
      [] step = "pe_stop" -> "returned"

\* The step after an order step; the report is built and returned after the last.
NextStep(step) ==
    CASE step = "ce_entry" -> "pe_entry"
      [] step = "pe_entry" -> "ce_stop"
      [] step = "ce_stop" -> "pe_stop"
      [] step = "pe_stop" -> "returned"

\* Faulty variant of OrderBody: the put stop built from the call's premium.
OrderBodyCallPremium(r, step) ==
    CASE step = "ce_entry" -> MarketSell(r.ce_pid)
      [] step = "pe_entry" -> MarketSell(r.pe_pid)
      [] step = "ce_stop" -> StopBuy(r.ce_pid, r.ce_premium[1])
      [] step = "pe_stop" -> StopBuy(r.pe_pid, r.ce_premium[1])

\* The body each order step sends.
OrderBody(r, step) ==
    CASE step = "ce_entry" -> MarketSell(r.ce_pid)
      [] step = "pe_entry" -> MarketSell(r.pe_pid)
      [] step = "ce_stop" -> StopBuy(r.ce_pid, r.ce_premium[1])
      [] step = "pe_stop" -> StopBuy(r.pe_pid, r.pe_premium[1])

\* One place_order call and what follows it up to the next client call.
AfterOrder(r, step, answer) ==
    LET r1 == [r EXCEPT !.ncalls = @ + 1]
    IN IF ClientRaises(answer) THEN Raised(r1, step, ClientError(answer))
       ELSE [r1 EXCEPT !.pc = NextStep(step), !.placed = Append(@, OrderBody(r, step))]

\* Faulty variant of Accept: an order the exchange already holds is not taken again.
AcceptOnce(bk, body) == IF BagIn(body, bk) THEN bk ELSE bk (+) SetToBag({body})

\* Faulty variant of Accept: a new order on a product takes the place of the
\* orders the exchange holds on it (they are cancelled).
AcceptLatest(bk, body) ==
    LET kept == {b \in BagToSet(bk) : b.product_id # body.product_id}
    IN [b \in kept |-> bk[b]] (+) SetToBag({body})

\* POST /v2/orders answered 2xx: the exchange holds one more order.
Accept(bk, body) == bk (+) SetToBag({body})

Running(t, step) == tpc[t] = "run" /\ run[t].pc = step

StepSpot(t) ==
    /\ Running(t, "spot")
    /\ \E answer \in HttpAnswers : run' = [run EXCEPT ![t] = AfterSpot(@, answer)]
    /\ UNCHANGED <<now, tz, market, tpc, book, sent, fired, resp, nruns, arg, ret>>

StepProducts(t) ==
    /\ Running(t, "products")
    /\ \E answer \in HttpAnswers : run' = [run EXCEPT ![t] = AfterProducts(@, answer)]
    /\ UNCHANGED <<now, tz, market, tpc, book, sent, fired, resp, nruns, arg, ret>>

StepPremium(t) ==
    /\ tpc[t] = "run"
    /\ \E leg \in {"ce", "pe"} :
         /\ run[t].pc = (IF leg = "ce" THEN "ce_premium" ELSE "pe_premium")
         /\ \E answer \in HttpAnswers : run' = [run EXCEPT ![t] = AfterPremium(@, leg, answer)]
    /\ UNCHANGED <<now, tz, market, tpc, book, sent, fired, resp, nruns, arg, ret>>

StepOrder(t) ==
    /\ tpc[t] = "run"
    /\ \E i \in 1..Len(OrderSteps) :
         /\ run[t].pc = OrderSteps[i]
         /\ \E answer \in HttpAnswers :
              /\ run' = [run EXCEPT ![t] = AfterOrder(@, OrderSteps[i], answer)]
              /\ book' = IF ClientRaises(answer) THEN book
                         ELSE Accept(book, OrderBody(run[t], OrderSteps[i]))
    /\ UNCHANGED <<now, tz, market, tpc, sent, fired, resp, nruns, arg, ret>>

(***************************************************************************)
(* app.py: the notification sink and the two triggers                      *)
(***************************************************************************)
\* The runs the two triggers start in a behaviour.
MaxRuns == 2

\* Seconds the clock advances over one scheduled job.
JobSecs == 2

\* Faulty variant of TgSendMessage: a failed post raises.
TgSendMessageRaising(ok) == IF ok THEN "returned" ELSE "raised"

\* tg_send_message: requests.post inside try/except Exception: pass. ok is
\* whether the post went through; the function returns either way.
TgSendMessage(ok) == "returned"

\* A message handed to the sink: its kind, its text, the placed orders whose
\* id and state the text gives, and whether the post went through.
Msg(kind, text, orders, ok) == [kind |-> kind, text |-> text, orders |-> orders, ok |-> ok]

\* Lines 196-202 of run_short_strangle: the report names every order placed.
ReportOrders(r) == r.placed

\* Faulty variant of ErrorOrders: the error message lists the orders the
\* run had placed.
ErrorOrdersForwarded(r) == r.placed

\* The error message is built from the exception alone, f"...: {e}"; the
\* run's list of order responses is a local of run_short_strangle and is
\* gone when the exception leaves it.
ErrorOrders(r) == <<>>

\* The text of the message a trigger sends for a finished run: the report,
\* or the error's text.
ReportText == "BTC Short Strangle Executed"

\* Faulty variant of Catches: no except clause.
CatchesNothing(err) == FALSE

\* except Exception as e: every error the run or the sink raises is an
\* Exception.
Catches(err) == TRUE

\* Lines 118-131: compute the sleep, sleep, and reach "Fire job".
SchedSleep ==
    /\ tpc["sched"] = "loop"
    /\ nruns < MaxRuns
    /\ nruns' = nruns + 1
    /\ now' = now + SleepSeconds(now, tz)
    /\ fired' = Append(fired, now')
    /\ tpc' = [tpc EXCEPT !["sched"] = "fire"]
    /\ UNCHANGED <<tz, market, run, book, sent, resp, arg, ret>>

\* Lines 134-137 up to the call of run_short_strangle.
SchedAnnounce ==
    /\ tpc["sched"] = "fire"
    /\ \E ok \in BOOLEAN :
         /\ sent' = [sent EXCEPT !["sched"] = <<Msg("announce", "Scheduled run", <<>>, ok)>>]
         /\ IF TgSendMessage(ok) = "returned"
            THEN /\ tpc' = [tpc EXCEPT !["sched"] = "run"]
                 /\ run' = [run EXCEPT !["sched"] = StartRun(Underlying)]
            ELSE /\ tpc' = [tpc EXCEPT !["sched"] = IF Catches("SendError") THEN "caught" ELSE "dead"]
                 /\ run' = [run EXCEPT !["sched"] = IdleRun]
    /\ UNCHANGED <<now, tz, market, book, fired, resp, nruns, arg, ret>>

\* Line 138, and back to the top of the loop.
SchedReport ==
    /\ Running("sched", "returned")
    /\ \E ok \in BOOLEAN :
         /\ sent' = [sent EXCEPT !["sched"] = Append(@, Msg("report", ReportText, ReportOrders(run["sched"]), ok))]
         /\ IF TgSendMessage(ok) = "returned"
            THEN /\ tpc' = [tpc EXCEPT !["sched"] = "loop"]
                 /\ now' = now + JobSecs
            ELSE /\ tpc' = [tpc EXCEPT !["sched"] = IF Catches("SendError") THEN "caught" ELSE "dead"]
                 /\ now' = now
    /\ UNCHANGED <<tz, market, run, book, fired, resp, nruns, arg, ret>>

\* Faulty variant of Pending: the handler's except clause runs after every run
\* (a finally).
PendingFinally(t) ==
    IF tpc[t] = "caught" THEN "SendError"
    ELSE IF Running(t, "raised") THEN run[t].err
    ELSE IF Running(t, "returned") THEN "finally"
    ELSE ""

\* The exception a trigger's handler has in hand, "" when none: the one
\* its run raised, or the one a call of the sink raised.
Pending(t) ==
    IF tpc[t] = "caught" THEN "SendError"
    ELSE IF Running(t, "raised") THEN run[t].err
    ELSE ""

\* Lines 139-140, and back to the top of the loop. An exception the except
\* clause does not catch ends the thread.
SchedExcept ==
    /\ Pending("sched") # ""
    /\ IF Catches(Pending("sched"))
       THEN \E ok \in BOOLEAN :
              /\ sent' = [sent EXCEPT !["sched"] = Append(@, Msg("error", Pending("sched"), ErrorOrders(run["sched"]), ok))]
              /\ tpc' = [tpc EXCEPT !["sched"] =
                            IF TgSendMessage(ok) = "returned" THEN "loop" ELSE "dead"]
       ELSE /\ tpc' = [tpc EXCEPT !["sched"] = "dead"]
            /\ sent' = sent
    /\ now' = now + JobSecs
    /\ UNCHANGED <<tz, market, run, book, fired, resp, nruns, arg, ret>>

(***************************************************************************)
(* The webhook server: one request at a time, the run inside the handler.  *)
(***************************************************************************)
\* str.lower() on the letters the model's texts use.
Lower(c) ==
    CASE c = "S" -> "s" [] c = "T" -> "t" [] c = "R" -> "r" [] c = "A" -> "a"
      [] c = "N" -> "n" [] c = "G" -> "g" [] c = "L" -> "l" [] c = "E" -> "e"
      [] OTHER -> c

RECURSIVE Strip(_)
\* str.strip() for blanks.
Strip(s) ==
    IF s = <<>> THEN s
    ELSE IF s[1] = " " THEN Strip(Tail(s))
    ELSE IF s[Len(s)] = " " THEN Strip(SubSeq(s, 1, Len(s) - 1))
    ELSE s

CommandToken == <<"/", "s", "t", "r", "a", "n", "g", "l", "e">>

\* parse_command: "strangle" or None ("").
ParseCommand(text) ==
    LET t == [i \in 1..Len(Strip(text)) |-> Lower(Strip(text)[i])]
    IN IF text = <<>> THEN ""
       ELSE IF Len(t) >= Len(CommandToken) /\ SubSeq(t, 1, Len(CommandToken)) = CommandToken
       THEN "strangle"
       ELSE ""

\* The POST bodies the model sends: json is whether the body parses, dict
\* whether it parses to an object, text the message text of the update.
Requests ==
    << [json |-> FALSE, dict |-> FALSE, text |-> <<>>],
       [json |-> TRUE, dict |-> FALSE, text |-> <<>>],
       [json |-> TRUE, dict |-> TRUE, text |-> CommandToken],
       [json |-> TRUE, dict |-> TRUE,
        text |-> <<" ", "/", "S", "T", "R", "A", "N", "G", "L", "E", " ", "x">>],
       [json |-> TRUE, dict |-> TRUE, text |-> <<"/", "s", "t", "a", "r", "t">>],
       [json |-> TRUE, dict |-> TRUE, text |-> <<>>] >>

\* Faulty variant of Serving: a server that hands each request to a thread
\* of its own takes the next request while a handler is still at work.
ServingThreaded(pc) == TRUE

\* serve_http: socketserver.TCPServer, whose serve_forever calls the handler
\* in the serving thread itself; the next request is taken when the handler
\* has returned. pc is the serving thread's position.
Serving(pc) == pc = "serve"

\* do_POST up to the call of run_short_strangle (lines 86-101), or to its
\* end for a request that starts no run (lines 91, 93, 105-109). An
\* exception that leaves do_POST is reported by the server, which drops
\* the request ("aborted") and serves the next.
HookPost ==
    /\ Serving(tpc["manual"])
    /\ \E i \in 1..Len(Requests) :
         LET req == Requests[i]
         IN IF ~req.json
            THEN resp' = "400" /\ UNCHANGED <<tpc, run, sent, nruns>>
            ELSE IF ~req.dict
            THEN resp' = "aborted" /\ UNCHANGED <<tpc, run, sent, nruns>>
            ELSE IF ParseCommand(req.text) # "strangle"
            THEN resp' = "200" /\ UNCHANGED <<tpc, run, sent, nruns>>
            ELSE \E ok \in BOOLEAN :
                 /\ nruns < MaxRuns
                 /\ nruns' = nruns + 1
                 /\ sent' = [sent EXCEPT !["manual"] = <<Msg("announce", "Manual trigger received", <<>>, ok)>>]
                 /\ IF TgSendMessage(ok) = "returned"
                    THEN /\ tpc' = [tpc EXCEPT !["manual"] = "run"]
                         /\ run' = [run EXCEPT !["manual"] = StartRun(Underlying)]
                         /\ resp' = "pending"
                    ELSE /\ tpc' = tpc
                         /\ run' = [run EXCEPT !["manual"] = IdleRun]
                         /\ resp' = "aborted"
    /\ UNCHANGED <<now, tz, market, book, fired, arg, ret>>

\* Lines 102 and 109: the report to the sink, 200 OK to the request.
HookReport ==
    /\ Running("manual", "returned")
    /\ \E ok \in BOOLEAN :
         /\ sent' = [sent EXCEPT !["manual"] = Append(@, Msg("report", ReportText, ReportOrders(run["manual"]), ok))]
         /\ IF TgSendMessage(ok) = "returned"
            THEN /\ tpc' = [tpc EXCEPT !["manual"] = "serve"]
                 /\ resp' = "200"
            ELSE /\ tpc' = [tpc EXCEPT !["manual"] = "caught"]
                 /\ resp' = resp
    /\ UNCHANGED <<now, tz, market, run, book, fired, nruns, arg, ret>>

\* Lines 103-104 and 109.
HookExcept ==
    /\ Pending("manual") # ""
    /\ IF Catches(Pending("manual"))
       THEN \E ok \in BOOLEAN :
              /\ sent' = [sent EXCEPT !["manual"] = Append(@, Msg("error", Pending("manual"), ErrorOrders(run["manual"]), ok))]
              /\ resp' = IF TgSendMessage(ok) = "returned" THEN "200" ELSE "aborted"
       ELSE /\ sent' = sent
            /\ resp' = "aborted"
    /\ tpc' = [tpc EXCEPT !["manual"] = "serve"]
    /\ UNCHANGED <<now, tz, market, run, book, fired, nruns, arg, ret>>

(***************************************************************************)
(* The system                                                              *)
(***************************************************************************)
\* The clock values a behaviour starts at, and the hosts' time zones.
StartStep == 1800

SchedStarts == {k * StartStep + o : k \in 0..((DaySeconds \div StartStep) - 1), o \in {0, 30}}

SysInit(starts, zones, markets) ==
    /\ now \in starts
    /\ tz \in zones
    /\ \E i \in 1..Len(markets) : market = markets[i]
    /\ tpc = [t \in Triggers |-> WaitPc(t)]
    /\ run = [t \in Triggers |-> IdleRun]
    /\ book = EmptyBag
    /\ sent = [t \in Triggers |-> <<>>]
    /\ fired = <<>>
    /\ resp = "none"
    /\ nruns = 0

\* No helper is being checked on its own.
NoCall == arg = [fn |-> "none"] /\ ret = <<>>

\* The process started shortly before the configured time, on a UTC host.
Init ==
    /\ SysInit({TargetHH * 3600 + TargetMM * 60 - 30}, {0}, Markets)
    /\ NoCall

Step(t) == StepSpot(t) \/ StepProducts(t) \/ StepPremium(t) \/ StepOrder(t)

Next ==
    \/ \E t \in Triggers : Step(t)
    \/ SchedSleep \/ SchedAnnounce \/ SchedReport \/ SchedExcept
    \/ HookPost \/ HookReport \/ HookExcept

Spec == Init /\ [][Next]_vars

\* The scheduler thread alone, from every start of the process, on a UTC
\* host and on an IST host, against the first snapshot.
InitSched ==
    /\ SysInit(SchedStarts, {0, IstSeconds}, <<Markets[1]>>)
    /\ NoCall

NextSched ==
    \/ Step("sched")
    \/ SchedSleep \/ SchedAnnounce \/ SchedReport \/ SchedExcept

SpecSched == InitSched /\ [][NextSched]_vars

(***************************************************************************)
(* The pure helpers on their own: Init draws the input, the one action     *)
(* applies the helper.                                                     *)
(***************************************************************************)
\* An exchange that answers nothing: the helpers below call none.
Closed == Market(JNull, JNull, JNull, JNull)

\* Sequences over S of length at most n.
SeqUpTo(S, n) == UNION {[1..k -> S] : k \in 0..n}

\* Products a list handed to _extract_btc_option_products is drawn from.
CandProducts ==
    { Product(Sym("C", S101, Tag0), 1),
      Product(Sym("C", S101, Tag0), 2),
      Product(Sym("P", S99, Tag0), 3),
      Product(Sym("C", S101, Tag1), 4),
      Product(Sym("X", S101, Tag0), 5),
      Product(<<"C", "-", "E", "T", "H", "-">> \o S101 \o <<"-">> \o Tag0, 6),
      Product(<<"C", "-", "X", "B", "T", "C", "-">> \o S101 \o <<"-">> \o Tag0, 7),
      Product(Sym("C", <<"a", "b">>, Tag0), 8),
      Product(<<"C", "-">> \o BTC \o <<"-">> \o S101, 9),
      Product(Sym("P", S99, Tag0) \o <<"-", "X">>, 10),
      Product(Underlying, 11),
      Product(<<>>, 12) }

MaxProducts == 2

InitExtract ==
    /\ SysInit({0}, {0}, <<Closed>>)
    /\ arg \in [fn : {"extract"}, products : SeqUpTo(CandProducts, MaxProducts),
                 expiry : {Tag0, Tag1}]
    /\ ret = <<>>

ExtractCall ==
    /\ arg.fn = "extract"
    /\ ret = <<>>
    /\ ret' = <<ExtractBtcOptionProducts(arg.products, arg.expiry)>>
    /\ UNCHANGED <<arg, sysvars>>

SpecExtract == InitExtract /\ [][ExtractCall]_vars

\* Strikes are 49000, 49500, ... (PickWidth + 1 of them); a list handed to
\* _pick_strikes is the ascending list of a non-empty subset, as line 123
\* builds it.
PickWidth == 4

PickStrikeVals == {(49000 + 500 * k) * Scale : k \in 0..PickWidth}

PickSpots == {0, 49000 * Scale, 49505 * Scale, 50000 * Scale, 51000 * Scale + 1}

InitPick ==
    /\ SysInit({0}, {0}, <<Closed>>)
    /\ \E S \in (SUBSET PickStrikeVals) \ {{}} : \E c \in PickSpots :
         arg = [fn |-> "pick", cmp_price |-> c, strikes |-> SortedSeq(S)]
    /\ ret = <<>>

PickCall ==
    /\ arg.fn = "pick"
    /\ ret = <<>>
    /\ ret' = <<PickStrikes(arg.cmp_price, arg.strikes)>>
    /\ UNCHANGED <<arg, sysvars>>

SpecPick == InitPick /\ [][PickCall]_vars

\* The values a price field of a ticker takes in the model: null, 0, 5.0,
\* "100.5", "na", true, [] (and the field may be absent).
FieldVals ==
    << JNull, JNum(0), JNum(5 * Scale), JStr(<<"1", "0", "0", ".", "5">>),
       JStr(<<"n", "a">>), JBool(TRUE), JList(<<>>) >>

\* The values of a "result" key that is not the ticker itself: the falsy
\* ones (null, {}, 0, "", [], false) and truthy ones that are no dict.
WrapVals ==
    << JNull, JDict(<<>>), JNum(0), JStr(<<>>), JList(<<>>), JBool(FALSE),
       JNum(5 * Scale), JStr(<<"x">>), JList(<<JNum(Scale)>>), JBool(TRUE) >>

\* The dict of the price fields: field i has the value FieldVals[ix[i]], or
\* is absent when ix[i] = 0.
Fields(ix) ==
    [k \in {PriceFields[i] : i \in {j \in 1..Len(PriceFields) : ix[j] # 0}} |->
        FieldVals[ix[CHOOSE i \in 1..Len(PriceFields) : PriceFields[i] = k]]]

\* The dict f with the key "result" set to w.
WithResult(f, w) ==
    [k \in (DOMAIN f) \cup {"result"} |-> IF k = "result" THEN w ELSE f[k]]

\* A ticker response of the given shape around the fields f: 0 the fields
\* themselves, 1 the fields under "result", 2 a body that is no object,
\* 2 + n the fields beside a "result" of WrapVals[n].
Ticker(shape, f) ==
    CASE shape = 0 -> JDict(f)
      [] shape = 1 -> JDict("result" :> JDict(f))
      [] shape = 2 -> JList(<<JDict(f)>>)
      [] OTHER -> JDict(WithResult(f, WrapVals[shape - 2]))

\* One ticker response, answered for the underlying and for every option.
InitPrice ==
    /\ \E ix \in [1..Len(PriceFields) -> 0..Len(FieldVals)] :
         \E shape \in 0..(2 + Len(WrapVals)) :
            LET tick == Ticker(shape, Fields(ix))
            IN SysInit({0}, {0}, <<Market(tick, JNull, tick, tick)>>)
    /\ arg = [fn |-> "price"]
    /\ ret = <<>>

\* Lines 92-104 on the spot ticker and _current_option_premium on the same
\* response.
PriceCall ==
    /\ arg.fn = "price"
    /\ ret = <<>>
    /\ ret' = <<[run |-> AfterSpot(StartRun(Underlying), "2xx"),
                 premium |-> CurrentOptionPremium(OptionTicker(market, Sym("C", S101, Tag0)))]>>
    /\ UNCHANGED <<arg, sysvars>>

SpecPrice == InitPrice /\ [][PriceCall]_vars

(***************************************************************************)
(* delta_client.py: one call of a client operation, down to the HTTP       *)
(* request it puts on the wire and what it hands back.                     *)
(***************************************************************************)
ClientOps ==
    {"get_products", "get_tickers", "get_ticker_symbol",
     "place_order", "get_orders", "amend_order"}

\* A query parameter: its key and its value, a string or None.
Param(k, none, text) == [k |-> k, none |-> none, text |-> text]

\* str(v) as urlencode writes a value.
ParamText(p) == IF p.none THEN "None" ELSE p.text

RECURSIVE JoinPairs(_)
\* "k=v&k=v...", as a sequence of tokens.
JoinPairs(items) ==
    IF items = <<>> THEN <<>>
    ELSE <<items[1].k, "=", ParamText(items[1])>> \o
         (IF Len(items) = 1 THEN <<>> ELSE <<"&">> \o JoinPairs(Tail(items)))

\* Lines 27-31: "?" + urlencode(params) when params is not empty.
QueryString(items) == IF items = <<>> THEN <<>> ELSE <<"?">> \o JoinPairs(items)

NotNone(p) == ~p.none

\* Line 39, params=params: requests leaves out the keys whose value is None
\* and appends "?..." to the URL when something is left.
SentQuery(items) == QueryString(SelectSeq(items, NotNone))

\* _sign: the HMAC-SHA256 of method + timestamp + path + query_string +
\* payload under the secret, kept as the text it is computed over.
Sign(method, path, query_string, payload, timestamp) ==
    [hmac |-> <<method, timestamp, path, query_string, payload>>]

\* resp.raise_for_status(): raises for the 4xx and 5xx statuses only.
RaiseForStatus(status) == status >= 400 /\ status < 600

\* DeltaClient._request. params is a sequence of Params (<<>> for None and
\* for {}), body a JSON value (JNull for None), ts the clock's seconds,
\* http what the exchange does with the request: status 0 is a transport
\* failure, json whether the response body parses. The result is the
\* requests put on the wire and the outcome of the call.
Request(method, path, params, body, auth, ts, http) ==
    LET payload == IF Truthy(body) THEN Some(body) ELSE None
        query_string == QueryString(params)
        headers == IF auth
                   THEN [names |-> {"Content-Type", "Accept", "api-key", "timestamp", "signature"},
                         timestamp |-> Some(ts),
                         signature |-> Some(Sign(method, path, query_string, payload, ts))]
                   ELSE [names |-> {"Content-Type", "Accept"},
                         timestamp |-> None, signature |-> None]
        http_req == [method |-> method, path |-> path, query |-> SentQuery(params),
                     data |-> payload, headers |-> headers]
        outcome == IF http.status = 0 THEN "raised"
                   ELSE IF RaiseForStatus(http.status) THEN "raised"
                   ELSE IF ~http.json THEN "raised"
                   ELSE "returned"
    IN [wire |-> <<http_req>>, outcome |-> outcome]

\* Lines 44-61: the six operations. a holds the operation's arguments.
ClientOp(op, a, ts, http) ==
    CASE op = "get_products" ->
           Request("GET", <<"/v2/products">>, <<>>, JNull, FALSE, ts, http)
      [] op = "get_tickers" ->
           Request("GET", <<"/v2/tickers">>, a.params, JNull, FALSE, ts, http)
      [] op = "get_ticker_symbol" ->
           Request("GET", <<"/v2/tickers/", a.symbol>>, <<>>, JNull, FALSE, ts, http)
      [] op = "place_order" ->
           Request("POST", <<"/v2/orders">>, <<>>, a.body, TRUE, ts, http)
      [] op = "get_orders" ->
           Request("GET", <<"/v2/orders">>, a.params, JNull, TRUE, ts, http)
      [] op = "amend_order" ->
           Request("PUT", <<"/v2/orders">>, <<>>, a.body, TRUE, ts, http)

\* The params and the bodies the operations are called with.
ClientParams ==
    { <<>>,
      <<Param("state", FALSE, "open")>>,
      <<Param("state", TRUE, "")>>,
      <<Param("state", FALSE, "open"), Param("page_size", FALSE, "2")>>,
      <<Param("state", FALSE, "open"), Param("page_size", TRUE, "")>> }

ClientBodies == << JNull, JDict(<<>>), JDict("product_id" :> JNum(1)) >>

\* The statuses the exchange answers with; 0 is no answer at all.
ClientStatuses == {0, 200, 201, 300, 304, 400, 401, 404, 429, 500, 503}

InitClient ==
    /\ SysInit({0}, {0}, <<Closed>>)
    /\ \E i \in 1..Len(ClientBodies) :
         arg \in [fn : {"client"}, op : ClientOps, params : ClientParams,
                  body : {ClientBodies[i]}, symbol : {Underlying},
                  status : ClientStatuses, json : BOOLEAN, ts : {1700000000}]
    /\ ret = <<>>

ClientCall ==
    /\ arg.fn = "client"
    /\ ret = <<>>
    /\ ret' = <<ClientOp(arg.op, arg, arg.ts, [status |-> arg.status, json |-> arg.json])>>
    /\ UNCHANGED <<arg, sysvars>>

SpecClient == InitClient /\ [][ClientCall]_vars

(***************************************************************************)
(* Properties                                                              *)
(***************************************************************************)
\* The client calls of one run, in the order run_short_strangle makes them.
CallOrder ==
    <<"spot", "products", "ce_premium", "pe_premium",
      "ce_entry", "pe_entry", "ce_stop", "pe_stop">>

IndexOf(step) == CHOOSE i \in 1..Len(CallOrder) : CallOrder[i] = step

\* The outcome messages (report or error) among the messages t handed to
\* the sink for its current run.
IsOutcome(m) == m.kind \in {"report", "error"}

Outcomes(t) == SelectSeq(sent[t], IsOutcome)

\* C1: once a step of a run has failed, the run has made no client call
\* after the failing one (its calls are exactly those up to the failing
\* step), has placed only the orders of the steps before it, is not
\* returned and no report of it reaches the sink; with the call-leg entry
\* order failing, no order at all has been placed by the run.
C1_FailureStopsRun ==
    \A t \in Triggers :
        run[t].err # "" =>
            /\ run[t].pc = "raised"
            /\ run[t].at \in {CallOrder[i] : i \in 1..Len(CallOrder)}
            /\ run[t].ncalls = IndexOf(run[t].at)
            /\ Len(run[t].placed) = Max(0, IndexOf(run[t].at) - 5)
            /\ \A i \in 1..Len(sent[t]) : sent[t][i].kind # "report"
            /\ (run[t].at = "ce_entry" => run[t].placed = <<>>)

\* A run whose call-leg entry order failed, after the trigger has dealt with it.
C1_Witness ==
    \E t \in Triggers :
        /\ run[t].pc = "raised" /\ run[t].at = "ce_entry"
        /\ run[t].ncalls = 5 /\ tpc[t] = WaitPc(t)

\* C2: a run that returned has placed exactly four orders: market sell 1
\* of the call product, market sell 1 of the put product, stop buy 1 of
\* the call product, stop buy 1 of the put product, in this order; and in
\* every run, a stop order is placed only after both entry orders.
C2_FourOrdersInOrder ==
    \A t \in Triggers :
        LET r == run[t]
            IsEntry(o, pid) ==
                /\ o.order_type = "market_order" /\ o.side = "sell"
                /\ o.size = 1 /\ o.product_id = pid
            IsStop(o, pid) ==
                /\ o.order_type = "stop_order" /\ o.side = "buy"
                /\ o.size = 1 /\ o.product_id = pid
        IN /\ r.pc = "returned" =>
                /\ Len(r.placed) = 4
                /\ IsEntry(r.placed[1], r.ce_pid)
                /\ IsEntry(r.placed[2], r.pe_pid)
                /\ IsStop(r.placed[3], r.ce_pid)
                /\ IsStop(r.placed[4], r.pe_pid)
           /\ \A i \in 1..Len(r.placed) :
                r.placed[i].order_type = "stop_order" =>
                    /\ i > 2
                    /\ IsEntry(r.placed[1], r.ce_pid)
                    /\ IsEntry(r.placed[2], r.pe_pid)

\* A run that returned its report.
C2_Witness ==
    \E t \in Triggers : run[t].pc = "returned" /\ Len(run[t].placed) = 4

\* The products the exchange lists, whatever the wrapper.
Listed ==
    LET prods == NormalizeResult(market.prods)
    IN IF prods.t = "list" THEN {prods.v[i] : i \in 1..Len(prods.v)} ELSE {}

\* C3: a run calls place_order only after it has extracted a spot price,
\* discovered at least one contract, found both reconstructed symbols
\* C-BTC-<int(call strike)>-<expiry> and P-BTC-<int(put strike)>-<expiry>
\* among the discovered symbols, resolved a product id for both and
\* obtained a premium for both; and a run one of whose reconstructed
\* symbols is not discovered has failed with "Selected symbols not
\* available" (SelectedContractMissing) and placed nothing.
C3_OrdersOnlyAfterValidation ==
    \A t \in Triggers :
        LET r == run[t]
            ordering ==
                \/ r.placed # <<>>
                \/ r.pc \in {"ce_entry", "pe_entry", "ce_stop", "pe_stop", "returned"}
                \/ r.at \in {"ce_entry", "pe_entry", "ce_stop", "pe_stop"}
            Rebuilt(cp, strike) ==
                <<cp, "-", "B", "T", "C", "-">> \o IntToStr(strike \div Scale)
                    \o <<"-">> \o r.expiry
        IN /\ ordering =>
                /\ r.cmp_price # None
                /\ r.syms # {}
                /\ r.ce_symbol = Rebuilt("C", r.ce_strike)
                /\ r.pe_symbol = Rebuilt("P", r.pe_strike)
                /\ r.ce_symbol \in r.syms /\ r.pe_symbol \in r.syms
                /\ r.ce_pid # 0 /\ r.pe_pid # 0
                /\ \E p \in Listed : p.symbol = r.ce_symbol /\ p.id = r.ce_pid
                /\ \E p \in Listed : p.symbol = r.pe_symbol /\ p.id = r.pe_pid
                /\ r.ce_premium # None /\ r.pe_premium # None
           /\ (r.ce_symbol # <<>> /\ (r.ce_symbol \notin r.syms \/ r.pe_symbol \notin r.syms)) =>
                /\ r.pc = "raised"
                /\ r.err = "Selected symbols not available"
                /\ r.placed = <<>> /\ r.ncalls = 2

\* A run that has placed an order.
C3_Witness ==
    \E t \in Triggers : run[t].placed # <<>> /\ run[t].ce_premium # None

\* C4: on a host whose local time is UTC, every firing of the scheduled
\* job happens while the UTC clock reads the configured HH:MM, and no two
\* firings fall in the same UTC calendar day, whatever the start time.
C4_OncePerDayAtTarget ==
    tz = 0 =>
        /\ \A i \in 1..Len(fired) :
              (fired[i] % DaySeconds) \div 60 = TargetHH * 60 + TargetMM
        /\ \A i, j \in 1..Len(fired) :
              i < j => fired[i] \div DaySeconds # fired[j] \div DaySeconds

\* C5: the two triggers run the executor without excluding each other, and
\* orders are double-placed: once a scheduled run and a manual run have
\* both returned, each has placed its own four orders and the exchange
\* holds every one of them, twice where the two runs sent the same body.
C5_DoublePlacement ==
    (run["sched"].pc = "returned" /\ run["manual"].pc = "returned") =>
        /\ Len(run["sched"].placed) = 4 /\ Len(run["manual"].placed) = 4
        /\ \A i \in 1..4 :
              /\ CopiesIn(run["manual"].placed[i], book) >= 1
              /\ CopiesIn(run["sched"].placed[i], book) >=
                    (IF run["manual"].placed[i] = run["sched"].placed[i] THEN 2 ELSE 1)
        /\ BagCardinality(book) >= 8

\* A scheduled run and a manual run both in progress, each with an entry
\* order placed and orders still to place.
C5_Witness ==
    \A t \in Triggers :
        /\ tpc[t] = "run"
        /\ run[t].pc \in {"pe_entry", "ce_stop", "pe_stop"}
        /\ run[t].placed # <<>>

\* C6: a trigger calls the executor with the configured underlying symbol,
\* hands no outcome message to the sink while the run is going on, and
\* once it is back waiting has handed exactly one: the report when the run
\* returned, the error's text when the run raised.
C6_ExactlyOneOutcome ==
    \A t \in Triggers :
        /\ run[t].pc # "idle" => run[t].underlying = Underlying
        /\ tpc[t] = "run" => Outcomes(t) = <<>>
        /\ (tpc[t] = WaitPc(t) /\ run[t].pc = "returned") =>
              /\ Len(Outcomes(t)) = 1
              /\ Outcomes(t)[1].kind = "report"
              /\ Outcomes(t)[1].text = ReportText
        /\ (tpc[t] = WaitPc(t) /\ run[t].pc = "raised") =>
              /\ Len(Outcomes(t)) = 1
              /\ Outcomes(t)[1].kind = "error"
              /\ Outcomes(t)[1].text = run[t].err
        /\ tpc[t] = WaitPc(t) => run[t].pc \in {"idle", "returned", "raised"}

\* One trigger back waiting after a run that returned, the other after a
\* run that raised.
C6_Witness ==
    /\ tpc["sched"] = "loop" /\ run["sched"].pc = "returned"
    /\ tpc["manual"] = "serve" /\ run["manual"].pc = "raised"
    /\ Len(sent["sched"]) = 2 /\ Len(sent["manual"]) = 2

\* C7: no run that raises stops a thread: the scheduler thread is never
\* dead, after a run that raised it is back at the top of its loop (and
\* fires again), and the webhook server has answered the request of a run
\* that raised and goes on serving.
C7_FailedRunNeverStops ==
    /\ [](/\ \A t \in Triggers : tpc[t] \notin {"dead", "caught"}
          /\ run["sched"].pc = "raised" => tpc["sched"] \in {"run", "loop", "fire"}
          /\ (tpc["sched"] = "loop" /\ nruns < MaxRuns) => ENABLED SchedSleep
          /\ tpc["manual"] = "serve" => ENABLED HookPost)
    /\ [][(tpc["manual"] = "run" /\ run["manual"].pc = "raised"
             /\ tpc'["manual"] # "run")
           => (tpc'["manual"] = "serve" /\ resp' = "200")]_vars

\* The scheduler has fired again after a run that raised, and the webhook
\* server has answered a request meanwhile.
C7_Witness ==
    /\ tpc["sched"] = "fire" /\ run["sched"].pc = "raised" /\ Len(fired) = 2
    /\ tpc["manual"] = "serve" /\ resp = "200"

\* C8: a send that fails aborts nothing. Once a trigger has handed the
\* announcement to the sink, delivered or not, the executor is called;
\* once it has handed the outcome message, delivered or not, it is back
\* waiting (the webhook having answered 200), with no further message.
C8_SendFailureAbortsNothing ==
    /\ [](\A t \in Triggers :
            /\ (sent[t] # <<>> /\ tpc[t] # "fire") => run[t].pc # "idle"
            /\ Len(sent[t]) >= 2 =>
                  /\ Len(sent[t]) = 2
                  /\ tpc[t] \in {WaitPc(t), "fire"})
    /\ [][(Len(sent["manual"]) = 1 /\ Len(sent'["manual"]) = 2)
           => (tpc'["manual"] = "serve" /\ resp' = "200")]_vars

\* The announcement and the report both failed to be delivered, the run
\* was executed to its end and the trigger is back waiting.
C8_Witness ==
    \E t \in Triggers :
        /\ Len(sent[t]) = 2 /\ ~sent[t][1].ok /\ ~sent[t][2].ok
        /\ run[t].pc = "returned" /\ tpc[t] = WaitPc(t)

\* C9: every symbol _extract_btc_option_products returns has exactly 4
\* dash-separated segments, the first C or P, the second BTC, the fourth
\* the expiry tag supplied.
C9_ExactlyFourSegments ==
    (arg.fn = "extract" /\ ret # <<>>) =>
        \A sym \in DOMAIN ret[1] :
            /\ Len(Split(sym)) = 4
            /\ Split(sym)[1] \in {<<"C">>, <<"P">>}
            /\ Split(sym)[2] = <<"B", "T", "C">>
            /\ Split(sym)[4] = arg.expiry

\* C10: on a non-empty ascending list of distinct strikes, _pick_strikes
\* returns as call strike a member at the least distance from spot * 1.01
\* and as put strike a member at the least distance from spot * 0.99, the
\* lowest such member on a tie; a one-element list gives its element for
\* both; spot 50000 with 49000, 49500, 50500, 51000 gives 50500 and 49500.
C10_NearestStrikeFirstOnTie ==
    (arg.fn = "pick" /\ ret # <<>>) =>
        LET strikes == {arg.strikes[i] : i \in 1..Len(arg.strikes)}
            \* 100 * |s - spot * pct / 100|
            Dist(s, pct) == IF 100 * s >= pct * arg.cmp_price
                            THEN 100 * s - pct * arg.cmp_price
                            ELSE pct * arg.cmp_price - 100 * s
            Nearest(x, pct) ==
                /\ x \in strikes
                /\ \A s \in strikes : Dist(x, pct) <= Dist(s, pct)
                /\ \A s \in strikes : Dist(s, pct) = Dist(x, pct) => x <= s
        IN /\ Nearest(ret[1][1], 101)
           /\ Nearest(ret[1][2], 99)
           /\ Len(arg.strikes) = 1 => ret[1] = <<arg.strikes[1], arg.strikes[1]>>
           /\ (/\ arg.cmp_price = 50000 * Scale
               /\ arg.strikes = <<49000 * Scale, 49500 * Scale, 50500 * Scale, 51000 * Scale>>)
              => ret[1] = <<50500 * Scale, 49500 * Scale>>

\* The spec's end-to-end scenario, and a tie on both sides.
C10_Witness ==
    /\ arg.fn = "pick" /\ ret # <<>>
    /\ arg.cmp_price = 50000 * Scale
    /\ \/ /\ arg.strikes = <<49000 * Scale, 49500 * Scale, 50500 * Scale, 51000 * Scale>>
          /\ ret[1] = <<50500 * Scale, 49500 * Scale>>
       \/ /\ arg.strikes = <<49000 * Scale, 50000 * Scale, 51000 * Scale>>
          /\ ret[1] = <<50000 * Scale, 49000 * Scale>>

\* The price fields of a ticker's normalised body that are present and
\* that float() accepts, by their place in the precedence.
Qualifying(tick) ==
    LET d == NormalizeResult(tick)
    IN {i \in 1..Len(PriceFields) :
           /\ IsDict(d)
           /\ PriceFields[i] \in DOMAIN d.v
           /\ ToFloat(d.v[PriceFields[i]]) # None}

\* The ticker is the object {key: value}, value a JSON value of tag t and
\* payload v.
IsOnly(tick, key, t, v) ==
    /\ IsDict(tick)
    /\ DOMAIN tick.v = {key}
    /\ tick.v[key].t = t
    /\ tick.v[key].v = v

\* C11: spot resolution takes the value of the first of close, last_price,
\* mark_price that is present and coercible, passing over present fields
\* that are not; a zero counts as a price; with no such field the run
\* raises and goes no further. {"close": "100.5"} gives 100.5,
\* {"mark_price": 0} gives 0.0, {} raises.
C11_FirstCoerciblePrice ==
    ret # <<>> =>
        LET r == ret[1].run
            Q == Qualifying(market.spot)
            first == CHOOSE i \in Q : \A j \in Q : i <= j
        IN /\ Q = {} => r.pc = "raised" /\ r.err = "CMP not found" /\ r.ncalls = 1
           /\ Q # {} => /\ r.pc = "products"
                        /\ r.cmp_price = ToFloat(NormalizeResult(market.spot).v[PriceFields[first]])
           /\ IsOnly(market.spot, "close", "str", <<"1", "0", "0", ".", "5">>) =>
                 r.cmp_price = Some(100 * Scale + 50)
           /\ IsOnly(market.spot, "mark_price", "num", 0) => r.cmp_price = Some(0)
           /\ (IsDict(market.spot) /\ DOMAIN market.spot.v = {}) => r.pc = "raised"

\* close is present but not a number, last_price is null, mark_price is 0:
\* the price is 0.0 and the run goes on.
C11_Witness ==
    /\ ret # <<>>
    /\ IsDict(market.spot)
    /\ DOMAIN market.spot.v = {"close", "last_price", "mark_price"}
    /\ market.spot.v["close"].t = "str"
    /\ market.spot.v["last_price"].t = "null"
    /\ market.spot.v["mark_price"].t = "num"
    /\ ret[1].run.cmp_price = Some(0)
    /\ ret[1].run.pc = "products"

\* C12: on every ticker response, with or without a result key and
\* whatever its value, _current_option_premium and the spot step of
\* run_short_strangle both fail or both give the same price.
C12_PremiumAsSpot ==
    ret # <<>> => ret[1].premium = ret[1].run.cmp_price

\* C13: the stop order of each leg is on that leg's product id and its
\* stop price reads as twice the premium looked up for that leg, with two
\* decimals; a premium of 12.34 gives "24.68".
C13_StopTwiceOwnPremium ==
    \A t \in Triggers : \A i \in 1..Len(run[t].placed) :
        LET r == run[t]
            o == r.placed[i]
        IN o.order_type = "stop_order" =>
             /\ o.side = "buy" /\ o.size = 1
             /\ i \in {3, 4}
             /\ i = 3 => /\ o.product_id = r.ce_pid
                         /\ ParseFloat(o.stop_price) = Some(2 * r.ce_premium[1])
             /\ i = 4 => /\ o.product_id = r.pe_pid
                         /\ ParseFloat(o.stop_price) = Some(2 * r.pe_premium[1])
             /\ (i = 3 /\ r.ce_premium = Some(12 * Scale + 34)) =>
                   o.stop_price = <<"2", "4", ".", "6", "8">>

\* A run has placed both stops, the call's at 24.68 for a premium of 12.34
\* and the put's at 10.0 for a premium of 5.0, on different products.
C13_Witness ==
    \E t \in Triggers :
        /\ Len(run[t].placed) = 4
        /\ run[t].ce_premium = Some(12 * Scale + 34)
        /\ run[t].pe_premium = Some(5 * Scale)
        /\ run[t].placed[3].stop_price = <<"2", "4", ".", "6", "8">>
        /\ run[t].placed[4].stop_price = <<"1", "0", ".", "0">>
        /\ run[t].placed[3].product_id # run[t].placed[4].product_id

\* The copies of body b the two triggers' current runs have placed.
PlacedCopies(b) ==
    Cardinality({<<t, i>> \in Triggers \X (1..4) :
                    i <= Len(run[t].placed) /\ run[t].placed[i] = b})

\* C14: no order is ever cancelled or amended, so what a run placed stays
\* in the book after the run failed; and nothing is idempotent: every
\* accepted order adds one copy to the book, whatever the book holds
\* already, and nothing else changes the book.
C14_NoCompensationNoIdempotency ==
    /\ [](\A t \in Triggers : \A i \in 1..Len(run[t].placed) :
             CopiesIn(run[t].placed[i], book) >= PlacedCopies(run[t].placed[i]))
    /\ [][\A b \in BagToSet(book) \cup BagToSet(book') :
             LET grew == {t \in Triggers :
                            /\ Len(run'[t].placed) = Len(run[t].placed) + 1
                            /\ run'[t].placed[Len(run'[t].placed)] = b}
             IN CopiesIn(b, book') = CopiesIn(b, book) + Cardinality(grew)]_vars

\* A first manual run failed at the call stop with both entries placed and
\* no stop (the scheduler has not run); the second manual run, on the same
\* snapshot, has placed both entries again: the book holds each entry
\* twice.
C14_Witness ==
    /\ run["sched"].pc = "idle" /\ nruns = 2
    /\ run["manual"].pc = "ce_stop" /\ Len(run["manual"].placed) = 2
    /\ CopiesIn(MarketSell(run["manual"].ce_pid), book) = 2
    /\ CopiesIn(MarketSell(run["manual"].pe_pid), book) = 2
    /\ BagCardinality(book) = 4

\* C15: every client operation puts exactly one HTTP request on the wire
\* per call, and an answer that is not 2xx, or no answer at all, is raised,
\* never returned as a value.
C15_OneRequestFailuresRaised ==
    ret # <<>> =>
        /\ Len(ret[1].wire) = 1
        /\ ~(arg.status >= 200 /\ arg.status < 300) => ret[1].outcome = "raised"

AuthHeaders == {"api-key", "timestamp", "signature"}

\* C16: the requests of place_order, get_orders and amend_order carry the
\* api-key, timestamp and signature headers, the signature being computed
\* over the method, the timestamp of the header, the path, the query
\* string and the payload that are sent (empty when there is none); the
\* requests of get_products, get_tickers and get_ticker_symbol carry none
\* of the three headers.
C16_SignedAsSent ==
    ret # <<>> =>
        LET w == ret[1].wire[1]
        IN IF arg.op \in {"place_order", "get_orders", "amend_order"}
           THEN /\ AuthHeaders \subseteq w.headers.names
                /\ w.headers.timestamp # None
                /\ w.headers.signature =
                      Some(Sign(w.method, w.path, w.query, w.data, w.headers.timestamp[1]))
           ELSE /\ AuthHeaders \cap w.headers.names = {}
                /\ w.headers.signature = None

\* What holds of one leg of a run r that places orders, whatever the
\* strikes: the leg's symbol is a discovered contract of type cp with the
\* run's expiry tag, the leg's product id is that contract's, and the
\* strike chosen for the leg is nearest to the leg's target.
LegDiscovered(r, cp, symbol, pid, strike, pct) ==
    /\ symbol \in r.syms
    /\ Split(symbol)[1] = <<cp>>
    /\ Split(symbol)[4] = r.expiry
    /\ \E p \in Listed : p.symbol = symbol /\ p.id = pid
    /\ \E i \in 1..Len(r.strikes) : r.strikes[i] = strike
    /\ \A i \in 1..Len(r.strikes) :
          StrikeKey(strike, r.cmp_price[1], pct) <= StrikeKey(r.strikes[i], r.cmp_price[1], pct)

\* C17 as stated: whenever a run places orders, each leg's contract is a
\* discovered one of the leg's type and of the run's expiry tag, and the
\* strike parsed from its symbol is the strike chosen for the leg, for
\* fractional and non-canonically written strikes too.
C17_SoldStrikeIsChosen ==
    \A t \in Triggers :
        LET r == run[t]
        IN r.placed # <<>> =>
             /\ LegDiscovered(r, "C", r.ce_symbol, r.ce_pid, r.ce_strike, UpPct)
             /\ LegDiscovered(r, "P", r.pe_symbol, r.pe_pid, r.pe_strike, DnPct)
             /\ \A i \in 1..Len(r.placed) : r.placed[i].product_id \in {r.ce_pid, r.pe_pid}
             /\ ParseStrikeFromSymbol(r.ce_symbol) = Some(r.ce_strike)
             /\ ParseStrikeFromSymbol(r.pe_symbol) = Some(r.pe_strike)

\* C17 amended: the strike parsed from the symbol of each contract sold is
\* the integer part of the strike chosen for the leg, so it is the chosen
\* strike whenever that strike is a whole number.
C17_SoldStrikeIsTruncatedChosen ==
    \A t \in Triggers :
        LET r == run[t]
        IN r.placed # <<>> =>
             /\ LegDiscovered(r, "C", r.ce_symbol, r.ce_pid, r.ce_strike, UpPct)
             /\ LegDiscovered(r, "P", r.pe_symbol, r.pe_pid, r.pe_strike, DnPct)
             /\ \A i \in 1..Len(r.placed) : r.placed[i].product_id \in {r.ce_pid, r.pe_pid}
             /\ ParseStrikeFromSymbol(r.ce_symbol) = Some(Scale * IntTrunc(r.ce_strike))
             /\ ParseStrikeFromSymbol(r.pe_symbol) = Some(Scale * IntTrunc(r.pe_strike))
             /\ r.ce_strike % Scale = 0 => ParseStrikeFromSymbol(r.ce_symbol) = Some(r.ce_strike)
             /\ r.pe_strike % Scale = 0 => ParseStrikeFromSymbol(r.pe_symbol) = Some(r.pe_strike)

\* A run chose the strike 101.5 for the call and has sold the contract at
\* 101.
C17_Witness ==
    \E t \in Triggers :
        /\ run[t].placed # <<>>
        /\ run[t].ce_strike = 101 * Scale + 50
        /\ ParseStrikeFromSymbol(run[t].ce_symbol) = Some(101 * Scale)
        /\ run[t].placed[1].product_id = 51

\* The client calls of run_short_strangle, in order.
RunSteps ==
    {"spot", "products", "ce_premium", "pe_premium", "ce_entry", "pe_entry", "ce_stop", "pe_stop"}

\* C18: manual runs are serialized. While a manually triggered run is in
\* progress the serving thread is inside the handler that started it and
\* that handler's request is the last one taken and is still unanswered;
\* and a manual run starts only when the serving thread is waiting for a
\* request, so never while another manual run is in progress.
C18_ManualRunsSerialized ==
    /\ [](run["manual"].pc \in RunSteps => (tpc["manual"] = "run" /\ resp = "pending"))
    /\ [][(nruns' = nruns + 1 /\ tpc'["sched"] = tpc["sched"])
           => (/\ tpc["manual"] = "serve"
               /\ run["manual"].pc \notin RunSteps
               /\ tpc'["manual"] = "run" => run'["manual"] = StartRun(Underlying))]_vars

\* The second of two manual runs is in progress, the first having placed
\* its four orders and been answered.
C18_Witness ==
    /\ fired = <<>>
    /\ nruns = 2
    /\ tpc["manual"] = "run"
    /\ run["manual"].pc = "ce_entry"
    /\ BagCardinality(book) = 4

\* C19: for a run that raised after placing one or more orders, no message
\* the trigger hands to the sink for that run gives the id or state of any
\* order; the messages are the announcement sent before the run started
\* and, once the trigger has dealt with the failure, one more message, the
\* error's text.
C19_PlacedOrdersNotReported ==
    \A t \in Triggers :
        (run[t].pc = "raised" /\ run[t].placed # <<>>) =>
            /\ \A i \in 1..Len(sent[t]) : sent[t][i].orders = <<>>
            /\ Len(sent[t]) >= 1 /\ sent[t][1].kind = "announce"
            /\ tpc[t] = "run" => Len(sent[t]) = 1
            /\ tpc[t] # "run" =>
                  /\ Len(sent[t]) = 2
                  /\ sent[t][2].kind = "error"
                  /\ sent[t][2].text = run[t].err

\* A run failed at the put-leg stop order, with three orders placed and
\* held by the exchange, and the trigger has sent the error message.
C19_Witness ==
    \E t \in Triggers :
        /\ run[t].pc = "raised" /\ run[t].at = "pe_stop"
        /\ Len(run[t].placed) = 3
        /\ \A i \in 1..3 : BagIn(run[t].placed[i], book)
        /\ tpc[t] = WaitPc(t)
        /\ Len(sent[t]) = 2 /\ sent[t][2].kind = "error" /\ sent[t][2].ok

====
